---- MODULE Spec2Model ----
(***************************************************************************)
(* cargo-teensy (src/main.rs): the `upload` pipeline, the `new` scaffolder *)
(* and the toolchain version check, as a state machine.                    *)
(*                                                                         *)
(* Text is a sequence of one-character strings.  An Option<T> is a set     *)
(* with at most one element: {} is None, {x} is Some(x).                   *)
(***************************************************************************)
EXTENDS Integers, Sequences, FiniteSets, TLC

VARIABLES
    pc,             \* position of main
    args,           \* the decoded Args
    fs,             \* the file system: path -> content
    cwd,            \* the process's working directory
    events,         \* child processes spawned and reaped, in order
    stdout,         \* lines printed
    exitcode,       \* Option: the status the process ended with
    txt,            \* Option: the last argument of get_nightly_version
    rustversion,    \* Option: local `rustversion` of assert_rust_version
    rustcinstalled, \* Option: local `rustcinstalled` of assert_rust_version
    manifestv,      \* Option: local `manifest` of main
    binnamev,       \* Option: local `binname` of main
    written         \* the paths this process created or truncated

vars == <<pc, args, fs, cwd, events, stdout, exitcode, txt, rustversion,
          rustcinstalled, manifestv, binnamev, written>>

(***************************************************************************)
(* Bounds                                                                  *)
(***************************************************************************)
\* fragments per text handed to get_nightly_version on its own
MaxFrags == 3
\* fragments per text of the remote field and of the rustup output
MaxDocFrags == 1
\* child exit codes range over 0..MaxExitCode
MaxExitCode == 2

(***************************************************************************)
(* Text                                                                    *)
(***************************************************************************)
Digits == {"0", "1", "2", "3", "4", "5", "6", "7", "8", "9"}

STABLE == <<"s", "t", "a", "b", "l", "e">>
ACTIVE == <<"a", "c", "t", "i", "v", "e", " ",
            "t", "o", "o", "l", "c", "h", "a", "i", "n">>

Date1 == <<"2", "0", "1", "6", "-", "0", "3", "-", "0", "1">>
Date2 == <<"2", "0", "1", "7", "-", "0", "4", "-", "0", "5">>

\* the pieces the texts are put together from
Frags ==
    { Date1, Date2, STABLE,
      <<"\n">>, <<" ">>, <<"7">>,
      <<"n", "i", "g", "h", "t", "l", "y", "-">>,
      <<"2", "0", "1", "6", "-", "3">> }

RECURSIVE TextsUpTo(_)
TextsUpTo(n) ==
    IF n = 0 THEN { <<>> }
    ELSE LET S == TextsUpTo(n - 1) IN S \cup { s \o f : s \in S, f \in Frags }

Texts == TextsUpTo(MaxFrags)

\* the pieces of the remote `rust` field and of the rustup output
DocFrags ==
    { Date1, Date2, STABLE, <<"\n">>,
      <<"n", "i", "g", "h", "t", "l", "y", "-">> }

RECURSIVE DocTextsUpTo(_)
DocTextsUpTo(n) ==
    IF n = 0 THEN { <<>> }
    ELSE LET S == DocTextsUpTo(n - 1) IN S \cup { s \o f : s \in S, f \in DocFrags }

DocTexts == DocTextsUpTo(MaxDocFrags)

Min(S) == CHOOSE x \in S : \A y \in S : x <= y
Max(S) == CHOOSE x \in S : \A y \in S : x >= y

\* the positions at which pat occurs in t
Occurrences(t, pat) ==
    { i \in 1..(Len(t) - Len(pat) + 1) : SubSeq(t, i, i + Len(pat) - 1) = pat }

\* str::find: the first occurrence, as an Option
Find(t, pat) ==
    IF Occurrences(t, pat) = {} THEN {} ELSE { Min(Occurrences(t, pat)) }

\* \d{4}-\d{2}-\d{2} matches at position i of t
DateAt(t, i) ==
    /\ i >= 1
    /\ i + 9 <= Len(t)
    /\ \A k \in {0, 1, 2, 3, 5, 6, 8, 9} : t[i + k] \in Digits
    /\ t[i + 4] = "-"
    /\ t[i + 7] = "-"

DatePositions(t) == { i \in 1..Len(t) : DateAt(t, i) }

\* `.` matches every character but the line feed
DotStar(t, from, to) == \A k \in from..to : t[k] # "\n"

\* The regex .*(\d{4}-\d{2}-\d{2}).* matches from position s with its group at i:
\* the trailing .* always matches (possibly empty).
MatchFrom(t, s, i) == i >= s /\ DateAt(t, i) /\ DotStar(t, s, i - 1)

MatchStarts(t) ==
    LET dates == DatePositions(t)
    IN  { s \in 1..Len(t) : \E i \in dates : MatchFrom(t, s, i) }

\* Group 1 of the first match: the leftmost start, and from it the greedy
\* leading .* takes the longest prefix that still lets the date match.
FirstCapture(t) ==
    LET s == Min(MatchStarts(t))
        i == Max({ j \in DatePositions(t) : MatchFrom(t, s, j) })
    IN  SubSeq(t, i, i + 9)

\* get_nightly_version with unwrap_or("") in place of the unwraps
get_nightly_version_default(t) ==
    IF Find(t, STABLE) # {} THEN { t }
    ELSE IF MatchStarts(t) = {} THEN { <<>> }
    ELSE { FirstCapture(t) }

\* get_nightly_version that cuts the marker out instead of returning the text
get_nightly_version_marker(t) ==
    IF Find(t, STABLE) # {} THEN { STABLE }
    ELSE IF MatchStarts(t) = {} THEN {}
    ELSE { FirstCapture(t) }

\* get_nightly_version: {} when it panics (captures_iter(..).next().unwrap())
get_nightly_version(t) ==
    IF Find(t, STABLE) # {} THEN { t }
    ELSE IF MatchStarts(t) = {} THEN {}
    ELSE { FirstCapture(t) }

(***************************************************************************)
(* Exit statuses, commands, output                                         *)
(***************************************************************************)
\* std::process::ExitStatus: an exit code, or the signal that ended the child
ExitStatuses ==
    { [signaled |-> FALSE, code |-> c] : c \in 0..MaxExitCode }
        \cup { [signaled |-> TRUE, code |-> 9] }

\* ExitStatus::success
success(st) == ~st.signaled /\ st.code = 0

\* ExitStatus::code: None when a signal ended the child
code(st) == IF st.signaled THEN {} ELSE { st.code }

\* what a panicking Rust program exits with
PanicCode == 101

\* process::exit(c) as the parent sees it: the low eight bits
ProcessExit(c) == c % 256

Proj == "blink"
Names == {"foo", "bar"}

\* an argument is a sequence of pieces (format! joins them)
build_cmd ==
    << <<"cargo">>, <<"build">>, <<"--verbose">>, <<"--release">>,
       <<"--target=thumbv7em-none-eabi">>, <<"--features">>, <<"mcu_k20">> >>

hexfile(binname) == <<"target/thumbv7em-none-eabi/release/", binname, ".hex">>

make_hex_cmd(binname) ==
    << <<"arm-none-eabi-objcopy">>, <<"-O">>, <<"ihex">>, <<"-R">>, <<".eeprom">>,
       <<"target/thumbv7em-none-eabi/release/", binname>>, hexfile(binname) >>

upload_cmd(a, hex) ==
    << <<"teensy_loader_cli">>, <<"-w">>, <<"--mcu">>, <<"mk20dx256">> >>
        \o (IF a.flag_no_reboot THEN << <<"-n">> >> ELSE <<>>)
        \o (IF a.flag_hard_reboot THEN << <<"-r">> >> ELSE <<>>)
        \o (IF a.flag_soft_reboot THEN << <<"-s">> >> ELSE <<>>)
        \o << hex >>

cargo_new_cmd(a) == << <<"cargo">>, <<"new">>, <<a.arg_name>>, <<"--bin">> >>

NoStatus == [signaled |-> FALSE, code |-> 0]
SpawnEvent(cmd) == [ev |-> "spawn", cmd |-> cmd, status |-> NoStatus]
ExitEvent(cmd, st) == [ev |-> "exit", cmd |-> cmd, status |-> st]

\* a printed line: its fixed text and the command line it shows, if any
Msg(text, cmd) == [text |-> text, cmd |-> cmd]
Line(text) == Msg(text, <<>>)

(***************************************************************************)
(* Manifests and files                                                     *)
(***************************************************************************)
\* A toml::Table is a BTreeMap from top-level key to value.  Every top-level
\* value of a Cargo manifest is a table, written here as the set of its
\* <<key path, value>> entries.
NoTable == [k \in {} |-> {}]

\* MANIFESTADD, parsed
MANIFESTADD ==
    [k \in {"features", "dependencies"} |->
        IF k = "features"
        THEN { << <<"default">>, "[mcu_k20]" >>,
               << <<"mcu_k20">>, "[zinc/mcu_k20]" >> }
        ELSE { << <<"rust-libcore">>, "*" >>,
               << <<"zinc", "git">>, "https://github.com/hackndev/zinc.git" >>,
               << <<"zinc", "branch">>, "master" >>,
               << <<"macro_zinc", "git">>, "https://github.com/hackndev/zinc.git" >>,
               << <<"macro_zinc", "branch">>, "master" >>,
               << <<"macro_zinc", "path">>, "macro_zinc" >> }]

\* the [package] tables: with a name, and one without
PackageTables ==
    { { << <<"name">>, n >>, << <<"version">>, "0.1.0" >> } : n \in Names }
NamelessPackage == { << <<"version">>, "0.1.0" >> }

\* Option of a [dependencies] table
DependencyTables ==
    { {},
      { {} },
      { { << <<"bar">>, "1.0" >> } },
      { { << <<"rust-libcore">>, "0.1" >> } },
      { { << <<"bar">>, "1.0" >>, << <<"zinc", "path">>, "../zinc" >> } } }

\* Option of a [features] table
FeatureTables ==
    { {},
      { { << <<"default">>, "[]" >> } },
      { { << <<"extra">>, "[]" >> } } }

\* Option of a [profile] table
ProfileTables == { {}, { { << <<"release", "lto">>, "true" >> } } }

Only(S) == CHOOSE x \in S : TRUE

MkManifest(pkg, deps, feats, prof) ==
    [k \in {"package"}
            \cup (IF deps # {} THEN {"dependencies"} ELSE {})
            \cup (IF feats # {} THEN {"features"} ELSE {})
            \cup (IF prof # {} THEN {"profile"} ELSE {}) |->
        CASE k = "package" -> pkg
          [] k = "dependencies" -> Only(deps)
          [] k = "features" -> Only(feats)
          [] OTHER -> Only(prof)]

\* the parseable manifests that hold [package] name
Manifests ==
    { MkManifest(pkg, deps, feats, prof) :
        pkg \in PackageTables, deps \in DependencyTables,
        feats \in FeatureTables, prof \in ProfileTables }

\* what `cargo new <name> --bin` writes to Cargo.toml
CargoGenerated(name) ==
    MkManifest({ << <<"name">>, name >>, << <<"version">>, "0.1.0" >>,
                 << <<"authors">>, "[]" >> },
               { {} }, {}, {})

Rels ==
    {"", "Cargo.toml", "src", "src/main.rs", "thumbv7em-none-eabi.json",
     ".cargo", ".cargo/config"}
Paths == {".", Proj} \X Rels

File(kind) == [kind |-> kind, table |-> NoTable]
Toml(t) == [kind |-> "toml", table |-> t]
Absent == File("absent")
Dir == File("dir")

(***************************************************************************)
(* The initial states: the command line and the files found                *)
(***************************************************************************)
UploadArgs ==
    { [cmd_upload |-> TRUE, cmd_new |-> FALSE, arg_name |-> "",
       flag_soft_reboot |-> s, flag_hard_reboot |-> h, flag_no_reboot |-> n,
       flag_verbose |-> v, flag_ignore_version |-> i] :
        s \in BOOLEAN, h \in BOOLEAN, n \in BOOLEAN, v \in BOOLEAN, i \in BOOLEAN }

NewArgs ==
    { [cmd_upload |-> FALSE, cmd_new |-> TRUE, arg_name |-> Proj,
       flag_soft_reboot |-> FALSE, flag_hard_reboot |-> FALSE,
       flag_no_reboot |-> FALSE, flag_verbose |-> FALSE,
       flag_ignore_version |-> i] : i \in BOOLEAN }

\* the manifests found in the directory `upload` is run in
UploadManifests ==
    { MkManifest(pkg, { {} }, {}, {}) : pkg \in PackageTables \cup {NamelessPackage} }
        \cup { [k \in {"dependencies"} |-> {}] }

\* the manifests of a project directory that is there before `new` runs
UserManifests ==
    { MkManifest(Only(PackageTables), deps, {}, {}) :
        deps \in { { {} }, { { << <<"bar">>, "1.0" >> } } } }

NoFiles == [p \in Paths |-> IF p = <<".", "">> THEN Dir ELSE Absent]

\* the launch directory of `upload`
UploadFs ==
    { [NoFiles EXCEPT ![<<".", "Cargo.toml">>] = c] :
        c \in {Absent, File("garbage")} \cup { Toml(m) : m \in UploadManifests } }

\* a project directory that exists before `new` runs: with or without
\* sources, scaffolded before or not, with or without a manifest
ExistingProject ==
    { [p \in Paths |->
        CASE p = <<".", "">> -> Dir
          [] p = <<Proj, "">> -> Dir
          [] p = <<Proj, "src">> -> src[1]
          [] p = <<Proj, "src/main.rs">> -> src[2]
          [] p = <<Proj, "thumbv7em-none-eabi.json">> -> dot[2]
          [] p = <<Proj, ".cargo">> -> dot[1]
          [] p = <<Proj, ".cargo/config">> -> dot[2]
          [] p = <<Proj, "Cargo.toml">> -> toml
          [] OTHER -> Absent] :
        src \in {<<Absent, Absent>>, <<Dir, File("user")>>},
        dot \in {<<Absent, Absent>>, <<Dir, File("user")>>},
        toml \in {Absent, File("garbage")} \cup { Toml(m) : m \in UserManifests } }

NewFs == {NoFiles} \cup ExistingProject

Init ==
    /\ pc = "main"
    /\ \/ args \in UploadArgs /\ fs \in UploadFs
       \/ args \in NewArgs /\ fs \in NewFs
    /\ cwd = "."
    /\ events = <<>>
    /\ stdout = <<>>
    /\ exitcode = {}
    /\ txt = {}
    /\ rustversion = {}
    /\ rustcinstalled = {}
    /\ manifestv = {}
    /\ binnamev = {}
    /\ written = {}

(***************************************************************************)
(* Ways a step ends                                                        *)
(***************************************************************************)
\* a panic (a failed unwrap or expect) ends the process
Panics == pc' = "exited" /\ exitcode' = {PanicCode}

\* process::exit(c)
Exits(c) == pc' = "exited" /\ exitcode' = {ProcessExit(c)}

Goes(next) == pc' = next /\ exitcode' = exitcode

\* manifest(): Err when Cargo.toml cannot be opened or parsed
manifest ==
    LET f == fs[<<cwd, "Cargo.toml">>]
    IN  IF f.kind = "toml" THEN { f.table } ELSE {}

\* binname(): None where one of its unwraps panics
binname(m) ==
    IF "package" \notin DOMAIN m THEN {}
    ELSE LET names == { e \in m["package"] : e[1] = <<"name">> }
         IN  { e[2] : e \in names }

(***************************************************************************)
(* execute, in two steps: spawn, then wait                                 *)
(***************************************************************************)
\* execute up to command.spawn(): `before` are the lines printed ahead of it
Spawn(before, cmd, waiting) ==
    /\ stdout' = before \o (IF args.flag_verbose THEN <<Msg(">> ", cmd)>> ELSE <<>>)
    /\ \/ Goes(waiting) /\ events' = Append(events, SpawnEvent(cmd))
       \/ Panics /\ events' = events

\* the command of the child being waited for
Child == events[Len(events)].cmd

\* exit_on_fail
exit_on_fail(st, cmd, next) ==
    IF success(st)
    THEN Goes(next) /\ stdout' = stdout
    ELSE IF code(st) # {}
    THEN /\ stdout' = Append(stdout, Msg("Failed command: ", cmd))
         /\ Exits(Only(code(st)))
    ELSE Goes(next) /\ stdout' = stdout

\* child.wait() of execute, then exit_on_fail on what execute returns
WaitAndExitOnFail(next) ==
    \/ \E st \in ExitStatuses :
          /\ events' = Append(events, ExitEvent(Child, st))
          /\ exit_on_fail(st, Child, next)
    \/ Panics /\ UNCHANGED <<events, stdout>>

(***************************************************************************)
(* main, `upload`                                                          *)
(***************************************************************************)
\* manifest().unwrap() and binname(&manifest)
UploadReadManifest ==
    /\ pc = "main"
    /\ args.cmd_upload
    /\ IF manifest = {} \/ binname(Only(manifest)) = {}
       THEN Panics /\ UNCHANGED <<manifestv, binnamev>>
       ELSE /\ Goes("build")
            /\ manifestv' = manifest
            /\ binnamev' = binname(Only(manifest))
    /\ UNCHANGED <<args, fs, cwd, events, stdout, txt, rustversion,
                   rustcinstalled, written>>

BuildSpawn ==
    /\ pc = "build"
    /\ Spawn(stdout, build_cmd, "build_wait")
    /\ UNCHANGED <<args, fs, cwd, txt, rustversion, rustcinstalled, manifestv,
                   binnamev, written>>

BuildWait ==
    /\ pc = "build_wait"
    /\ WaitAndExitOnFail("make_hex")
    /\ UNCHANGED <<args, fs, cwd, txt, rustversion, rustcinstalled, manifestv,
                   binnamev, written>>

MakeHexSpawn ==
    /\ pc = "make_hex"
    /\ Spawn(stdout, make_hex_cmd(Only(binnamev)), "make_hex_wait")
    /\ UNCHANGED <<args, fs, cwd, txt, rustversion, rustcinstalled, manifestv,
                   binnamev, written>>

MakeHexWait ==
    /\ pc = "make_hex_wait"
    /\ WaitAndExitOnFail("upload")
    /\ UNCHANGED <<args, fs, cwd, txt, rustversion, rustcinstalled, manifestv,
                   binnamev, written>>

UploadSpawn ==
    /\ pc = "upload"
    /\ Spawn(Append(stdout, Line("UPLOAD (waiting for reset)")),
             upload_cmd(args, hexfile(Only(binnamev))), "upload_wait")
    /\ UNCHANGED <<args, fs, cwd, txt, rustversion, rustcinstalled, manifestv,
                   binnamev, written>>

UploadWait ==
    /\ pc = "upload_wait"
    /\ WaitAndExitOnFail("upload_done")
    /\ UNCHANGED <<args, fs, cwd, txt, rustversion, rustcinstalled, manifestv,
                   binnamev, written>>

\* the last println! and the return from main
UploadDone ==
    /\ pc = "upload_done"
    /\ stdout' = Append(stdout, Line("Upload successful"))
    /\ Exits(0)
    /\ UNCHANGED <<args, fs, cwd, events, txt, rustversion, rustcinstalled,
                   manifestv, binnamev, written>>

(***************************************************************************)
(* assert_rust_version                                                     *)
(***************************************************************************)
\* get_zinc_travis_yaml: what the fetch and the parse leave is the text of
\* the `rust` field, or a panic (transfer failed, no yaml, no such field)
GetZincTravisYaml ==
    /\ pc = "main"
    /\ args.cmd_new
    /\ \/ \E rustversionline \in DocTexts :
            LET version == get_nightly_version(rustversionline)
            IN  /\ txt' = {rustversionline}
                /\ rustversion' = version
                /\ IF version = {} THEN Panics ELSE Goes("rustc_version")
       \/ Panics /\ UNCHANGED <<txt, rustversion>>
    /\ UNCHANGED <<args, fs, cwd, events, stdout, rustcinstalled, manifestv,
                   binnamev, written>>

\* what `rustup show` prints before its "active toolchain" section
RustupHeads ==
    { <<>>, <<"n", "i", "g", "h", "t", "l", "y", "-">> \o Date2 \o <<"\n">> }

\* the outputs of `rustup show`
RustupOutputs ==
    { head \o mark \o tail :
        head \in RustupHeads, mark \in {<<>>, ACTIVE}, tail \in DocTexts }

\* rustc_version
RustcVersion ==
    /\ pc = "rustc_version"
    /\ \/ \E output \in RustupOutputs :
            IF Find(output, ACTIVE) = {}
            THEN Panics /\ UNCHANGED <<txt, rustcinstalled>>
            ELSE LET active == SubSeq(output, Only(Find(output, ACTIVE)), Len(output))
                     version == get_nightly_version(active)
                 IN  /\ txt' = {active}
                     /\ rustcinstalled' = version
                     /\ IF version = {} THEN Panics ELSE Goes("compare")
       \/ Panics /\ UNCHANGED <<txt, rustcinstalled>>
    /\ UNCHANGED <<args, fs, cwd, events, stdout, rustversion, manifestv,
                   binnamev, written>>

\* the comparison of assert_rust_version with the flag never consulted
Gate_noflag(required, installed, ignore) ==
    IF required # installed THEN "error" ELSE "equal"

\* the comparison of assert_rust_version: the branch it takes
Gate(required, installed, ignore) ==
    IF required # installed
    THEN IF ignore THEN "note" ELSE "error"
    ELSE "equal"

\* assert_rust_version from its comparison on; its locals end with it
CompareVersions ==
    /\ pc = "compare"
    /\ LET g == Gate(Only(rustversion), Only(rustcinstalled), args.flag_ignore_version)
       IN  CASE g = "equal" -> Goes("cargo_new") /\ stdout' = stdout
             [] g = "note" ->
                  /\ Goes("cargo_new")
                  /\ stdout' = Append(stdout, Line("Note: Installed rust version does not match"))
             [] OTHER ->
                  /\ Exits(-1)
                  /\ stdout' = Append(stdout, Line("Error: Installed rust version does not match"))
    /\ txt' = {}
    /\ rustversion' = {}
    /\ rustcinstalled' = {}
    /\ UNCHANGED <<args, fs, cwd, events, manifestv, binnamev, written>>

(***************************************************************************)
(* main, `new`                                                             *)
(***************************************************************************)
CargoNewSpawn ==
    /\ pc = "cargo_new"
    /\ Spawn(stdout, cargo_new_cmd(args), "cargo_new_wait")
    /\ UNCHANGED <<args, fs, cwd, txt, rustversion, rustcinstalled, manifestv,
                   binnamev, written>>

\* What `cargo new <name> --bin` leaves behind: it succeeds only where the
\* directory is not there yet, and then creates it with a manifest and
\* src/main.rs; when it fails it creates nothing.
CargoNewEffect(st) ==
    IF success(st)
    THEN /\ fs[<<args.arg_name, "">>].kind = "absent"
         /\ fs' = [fs EXCEPT ![<<args.arg_name, "">>] = Dir,
                             ![<<args.arg_name, "src">>] = Dir,
                             ![<<args.arg_name, "src/main.rs">>] = File("cargo_main"),
                             ![<<args.arg_name, "Cargo.toml">>] =
                                 Toml(CargoGenerated(args.arg_name))]
    ELSE fs' = fs

\* main, line 341: what cargo_new returns is dropped
cargo_new_result(st) == Goes("set_current_dir") /\ stdout' = stdout

\* child.wait() of execute for cargo_new, and the statement of main calling it
CargoNewWait ==
    /\ pc = "cargo_new_wait"
    /\ \/ \E st \in ExitStatuses :
            /\ CargoNewEffect(st)
            /\ events' = Append(events, ExitEvent(Child, st))
            /\ cargo_new_result(st)
       \/ Panics /\ UNCHANGED <<fs, events, stdout>>
    /\ UNCHANGED <<args, cwd, txt, rustversion, rustcinstalled, manifestv,
                   binnamev, written>>

\* std::env::set_current_dir(&args.arg_name).unwrap()
SetCurrentDir ==
    /\ pc = "set_current_dir"
    /\ IF fs[<<args.arg_name, "">>].kind = "dir"
       THEN Goes("write_abi") /\ cwd' = args.arg_name
       ELSE Panics /\ cwd' = cwd
    /\ UNCHANGED <<args, fs, events, stdout, txt, rustversion, rustcinstalled,
                   manifestv, binnamev, written>>

\* File::create(rel) and write_all(content), both unwrapped: the file is
\* created or truncated when its directory is there, and any I/O error panics
CreateAndWrite(rel, parent, content, next) ==
    \/ /\ fs[<<cwd, parent>>].kind = "dir"
       /\ fs' = [fs EXCEPT ![<<cwd, rel>>] = content]
       /\ written' = written \cup {<<cwd, rel>>}
       /\ Goes(next)
    \/ Panics /\ UNCHANGED <<fs, written>>

write_abi ==
    /\ pc = "write_abi"
    /\ CreateAndWrite("thumbv7em-none-eabi.json", "", File("ABIJSON"), "write_main")
    /\ UNCHANGED <<args, cwd, events, stdout, txt, rustversion, rustcinstalled,
                   manifestv, binnamev>>

write_main ==
    /\ pc = "write_main"
    /\ CreateAndWrite("src/main.rs", "src", File("EXAMPLEMAIN"), "write_cargo_helper")
    /\ UNCHANGED <<args, cwd, events, stdout, txt, rustversion, rustcinstalled,
                   manifestv, binnamev>>

\* DirBuilder::new().recursive(true).create(".cargo"), then the file
write_cargo_helper ==
    /\ pc = "write_cargo_helper"
    /\ \/ /\ fs' = [fs EXCEPT ![<<cwd, ".cargo">>] = Dir,
                               ![<<cwd, ".cargo/config">>] = File("CARGOCONFIG")]
          /\ written' = written \cup {<<cwd, ".cargo/config">>}
          /\ Goes("read_manifest")
       \/ Panics /\ UNCHANGED <<fs, written>>
    /\ UNCHANGED <<args, cwd, events, stdout, txt, rustversion, rustcinstalled,
                   manifestv, binnamev>>

\* let mut manifest = manifest().unwrap()
NewReadManifest ==
    /\ pc = "read_manifest"
    /\ IF manifest = {}
       THEN Panics /\ manifestv' = manifestv
       ELSE Goes("update_manifest") /\ manifestv' = manifest
    /\ UNCHANGED <<args, fs, cwd, events, stdout, txt, rustversion,
                   rustcinstalled, binnamev, written>>

\* BTreeMap::append: every entry of other moves into self, and where both
\* have a key the value of other replaces the value of self
append(self, other) ==
    [k \in DOMAIN self \cup DOMAIN other |->
        IF k \in DOMAIN other THEN other[k] ELSE self[k]]

\* update_manifest; the table written stands for its toml rendering
update_manifest ==
    /\ pc = "update_manifest"
    /\ LET merged == append(Only(manifestv), MANIFESTADD)
       IN  \/ /\ manifestv' = {merged}
              /\ fs' = [fs EXCEPT ![<<cwd, "Cargo.toml">>] = Toml(merged)]
              /\ written' = written \cup {<<cwd, "Cargo.toml">>}
              /\ Goes("main_return")
           \/ /\ manifestv' = {merged}
              /\ Panics
              /\ UNCHANGED <<fs, written>>
    /\ UNCHANGED <<args, cwd, events, stdout, txt, rustversion, rustcinstalled,
                   binnamev>>

\* main returns
MainReturn ==
    /\ pc = "main_return"
    /\ Exits(0)
    /\ UNCHANGED <<args, fs, cwd, events, stdout, txt, rustversion,
                   rustcinstalled, manifestv, binnamev, written>>

(***************************************************************************)
(* Specifications                                                          *)
(***************************************************************************)
Next ==
    \/ UploadReadManifest
    \/ BuildSpawn
    \/ BuildWait
    \/ MakeHexSpawn
    \/ MakeHexWait
    \/ UploadSpawn
    \/ UploadWait
    \/ UploadDone
    \/ GetZincTravisYaml
    \/ RustcVersion
    \/ CompareVersions
    \/ CargoNewSpawn
    \/ CargoNewWait
    \/ SetCurrentDir
    \/ write_abi
    \/ write_main
    \/ write_cargo_helper
    \/ NewReadManifest
    \/ update_manifest
    \/ MainReturn

Spec == Init /\ [][Next]_vars

\* get_nightly_version on its own: one call on a text
InitExtract ==
    /\ pc = "extract"
    /\ args = Only(NewArgs)
    /\ fs = NoFiles
    /\ cwd = "."
    /\ events = <<>>
    /\ stdout = <<>>
    /\ exitcode = {}
    /\ txt \in { {t} : t \in Texts }
    /\ rustversion = {}
    /\ rustcinstalled = {}
    /\ manifestv = {}
    /\ binnamev = {}
    /\ written = {}

Extract ==
    /\ pc = "extract"
    /\ rustversion' = get_nightly_version(Only(txt))
    /\ IF get_nightly_version(Only(txt)) = {} THEN Panics ELSE Goes("extracted")
    /\ UNCHANGED <<args, fs, cwd, events, stdout, txt, rustcinstalled,
                   manifestv, binnamev, written>>

SpecExtract == InitExtract /\ [][Extract]_vars

\* update_manifest on its own: main from line 349 on, on any manifest
InitManifest ==
    /\ pc = "update_manifest"
    /\ args \in NewArgs
    /\ \E m \in Manifests :
          /\ manifestv = {m}
          /\ fs = [p \in Paths |->
                    CASE p[2] \in {"", "src", ".cargo"} -> Dir
                      [] p = <<Proj, "Cargo.toml">> -> Toml(m)
                      [] p = <<Proj, "src/main.rs">> -> File("EXAMPLEMAIN")
                      [] p = <<Proj, "thumbv7em-none-eabi.json">> -> File("ABIJSON")
                      [] p = <<Proj, ".cargo/config">> -> File("CARGOCONFIG")
                      [] OTHER -> Absent]
    /\ cwd = Proj
    /\ events = <<>>
    /\ stdout = <<>>
    /\ exitcode = {}
    /\ txt = {}
    /\ rustversion = {}
    /\ rustcinstalled = {}
    /\ binnamev = {}
    /\ written = {}

NextManifest == update_manifest \/ MainReturn

SpecManifest == InitManifest /\ [][NextManifest]_vars

(***************************************************************************)
(* Properties                                                              *)
(***************************************************************************)
HasStable(t) == \E i \in 1..(Len(t) - 5) : SubSeq(t, i, i + 5) = STABLE
HasDate(t) == DatePositions(t) # {}
FirstDate(t) == SubSeq(t, Min(DatePositions(t)), Min(DatePositions(t)) + 9)
IsDate(t) == Len(t) = 10 /\ DateAt(t, 1)
IsNormalized(t) == t = STABLE \/ IsDate(t)

Failed(i) == events[i].ev = "exit" /\ ~success(events[i].status)
FailedCommands == { i \in DOMAIN events : Failed(i) }
Printed(line) == \E i \in DOMAIN stdout : stdout[i] = line
Succeeded == [signaled |-> FALSE, code |-> 0]

\* cargo new ran to a successful end in this run, so the project directory is new
ProjectCreated ==
    \E i \in DOMAIN events :
        events[i] = ExitEvent(cargo_new_cmd(args), Succeeded)

\* C1: in the upload workflow a stage whose process ends without success is
\* the last thing run: no later stage is spawned, and the program has ended
\* with that stage's exit code.
C1_FailureStopsPipeline ==
    args.cmd_upload =>
        \A i \in FailedCommands :
            /\ i = Len(events)
            /\ pc = "exited"
            /\ code(events[i].status) # {} => exitcode = code(events[i].status)

\* C2: for both subcommands the program exits with 0 only when every
\* external command it ran succeeded, and otherwise with the exit code of
\* the first command that failed.
C2_ExitCodeMirrorsFirstFailure ==
    pc = "exited" =>
        /\ exitcode = {0} => FailedCommands = {}
        /\ FailedCommands # {} =>
              LET first == events[Min(FailedCommands)].status
              IN  code(first) # {} => exitcode = code(first)

\* C3: the template files and the rewritten manifest are written only into
\* a directory that cargo new created in this run; when cargo new fails
\* nothing is created or overwritten.
C3_WritesOnlyIntoCreatedProject == written # {} => ProjectCreated

Note == Line("Note: Installed rust version does not match")

\* C4: the version gate lets the new workflow go on to cargo new exactly when
\* the two tokens are equal or the ignore-version flag is set.  Equal tokens
\* print nothing whatever the flag is; differing tokens with the flag print
\* the note and go on; differing tokens without it end the process with a
\* non-zero status, with no command run and no file written.  Nothing is
\* run or written before the gate, cargo new is reached only through it,
\* and nothing happens after the process has ended.
C4_VersionGate ==
    /\ [](args.cmd_new /\ pc \in {"main", "rustc_version", "compare"}
            => events = <<>> /\ written = {})
    /\ [][pc = "compare" =>
            LET equal == rustversion = rustcinstalled
                proceed == equal \/ args.flag_ignore_version
            IN  /\ proceed <=> (pc' = "cargo_new" /\ exitcode' = {})
                /\ equal => stdout' = stdout
                /\ (~equal /\ args.flag_ignore_version) => stdout' = Append(stdout, Note)
                /\ ~proceed =>
                      /\ pc' = "exited"
                      /\ exitcode' # {} /\ exitcode' # {0}
                      /\ events' = <<>> /\ written' = {}]_vars
    /\ [][pc' = "cargo_new" => pc = "compare"]_vars
    /\ [][(args.cmd_new /\ events = <<>> /\ events' # <<>>) => pc = "cargo_new"]_vars
    /\ [][(args.cmd_new /\ written = {} /\ written' # {}) => events # <<>>]_vars
    /\ [][pc # "exited"]_vars

\* C4 witness: the tokens differed, the flag was set, and files were written
C4_Witness ==
    /\ args.flag_ignore_version
    /\ Printed(Note)
    /\ <<Proj, "thumbv7em-none-eabi.json">> \in written

\* C5: for a text without "stable" that holds a date, get_nightly_version
\* returns the first (leftmost) date of the text.
C5_ReturnsFirstDate ==
    (pc # "extract" /\ ~HasStable(Only(txt)) /\ HasDate(Only(txt)))
        => rustversion = {FirstDate(Only(txt))}

\* C6: each of the two tokens that reach the comparison is "stable" or a
\* date YYYY-MM-DD.
C6_TokensNormalized ==
    pc = "compare" =>
        IsNormalized(Only(rustversion)) /\ IsNormalized(Only(rustcinstalled))

\* C7: for a text that holds "stable", with or without a date,
\* get_nightly_version returns the whole text.
C7_StableVerbatim ==
    (pc # "extract" /\ HasStable(Only(txt)))
        => pc = "extracted" /\ rustversion = txt

\* C7 witness: a longer text with "stable" and a date went through
C7_Witness ==
    /\ pc = "extracted"
    /\ HasStable(Only(txt))
    /\ HasDate(Only(txt))
    /\ rustversion = txt

\* C8: when the text handed to the extraction has neither "stable" nor a
\* date, the extraction panics and yields no token: the process has ended
\* there, before the comparison, with no command run, no line printed and
\* no file written.
C8_NoTokenStopsNew ==
    (txt # {} /\ ~HasStable(Only(txt)) /\ ~HasDate(Only(txt)))
        => /\ pc = "exited"
           /\ exitcode = {PanicCode}
           /\ rustversion = {} \/ rustcinstalled = {}
           /\ events = <<>>
           /\ stdout = <<>>
           /\ written = {}

\* C8 witness: the rustup text had no token, after the remote one had
C8_Witness ==
    /\ pc = "exited"
    /\ rustversion # {}
    /\ txt # {}
    /\ ~HasStable(Only(txt))
    /\ ~HasDate(Only(txt))
    /\ Len(Only(txt)) > Len(ACTIVE)

\* C9: the manifest update_manifest writes holds every entry of the manifest
\* it was given, at every level and with its value, and every key of the
\* fixed addition.
C9_ManifestKeepsEveryKey ==
    [][(pc = "update_manifest" /\ pc' = "main_return") =>
        LET before == Only(manifestv)
            after == fs'[<<cwd, "Cargo.toml">>].table
        IN  /\ \A k \in DOMAIN before :
                  k \in DOMAIN after /\ before[k] \subseteq after[k]
            /\ \A k \in DOMAIN MANIFESTADD :
                  /\ k \in DOMAIN after
                  /\ \A e \in MANIFESTADD[k] : \E a \in after[k] : a[1] = e[1]]_vars

\* the three stages ran in order, one at a time, each to a successful end
AllStagesSucceeded ==
    /\ binnamev # {}
    /\ events =
         << SpawnEvent(build_cmd),
            ExitEvent(build_cmd, Succeeded),
            SpawnEvent(make_hex_cmd(Only(binnamev))),
            ExitEvent(make_hex_cmd(Only(binnamev)), Succeeded),
            SpawnEvent(upload_cmd(args, hexfile(Only(binnamev)))),
            ExitEvent(upload_cmd(args, hexfile(Only(binnamev))), Succeeded) >>

\* C10: when upload has ended, "Upload successful" was printed if and only
\* if compile, convert and transfer ran in that order, each started after
\* the one before had ended, and each ended with success.
C10_SuccessLineIffAllSucceeded ==
    (args.cmd_upload /\ pc = "exited") =>
        (Printed(Line("Upload successful")) <=> AllStagesSucceeded)

====
